---- MODULE Spec2Model ----
(***************************************************************************)
(* Model of the child-process services of scrumAI:                         *)
(*   src/src/services/chatbotService.js  (ChatbotService)                  *)
(*   src/src/services/whisperService.js  (WhisperService)                  *)
(* Node's event loop runs one callback to completion at a time, so every   *)
(* action below is one callback (an API call up to its first await, a      *)
(* timer, or one emit of an event with all of its listeners).              *)
(***************************************************************************)
EXTENDS Integers, Sequences, FiniteSets, TLC

\* ---------------------------------------------------------------- bounds
MaxReq == 4        \* sendMessage() calls in the request-queue scenario
MaxFifoReq == 3    \* sendMessage() calls in the FIFO scenario
MaxLifeReq == 2    \* sendMessage() calls in the crash and stop scenarios
MaxProc == 2       \* worker processes spawned (= start() calls that pass the guard)
MaxStart == 2      \* start() calls
MaxStop == 2       \* stop() calls
MaxNoise == 1      \* malformed / 'error'-type lines the worker may print
MaxLines == 2      \* lines per stdout chunk
MaxBytes == 4      \* bytes the transcription worker writes to stdout
MaxChunks == 2     \* 'stream_chunk' lines of a streaming answer

Req == 1..MaxReq
Proc == 1..MaxProc
StartId == 1..MaxStart
StopId == 1..MaxStop

VARIABLES
    \* ---- ChatbotService fields (constructor, chatbotService.js:14-22)
    chatbotProcess,        \* 0 is null, otherwise the ChildProcess spawned
    isRunning,
    messageQueue,          \* sequence of request ids, head first
    isProcessingMessage,
    \* ---- the ChildProcess objects
    procSt,                \* "unborn", "alive", "exited" (exitCode set), "closed" ('close' emitted)
    killed,                \* ChildProcess.killed
    stdinEnded,            \* stdin.end() was called
    stdoutOnce,            \* per process: requests whose handleResponse is a once('data') listener
    \* ---- the closures of processMessageQueue and the promises of sendMessage
    timer,                 \* per request: the 30 s timeout is armed
    promise,               \* "none", "pending", "resolved", "rej_timeout", "rej_error", "rej_send"
    value,                 \* per request: the data it was resolved with (0: none)
    written,               \* the request payloads written to a stdin, in order
    uncaught,              \* a callback ended with an uncaught TypeError
    streamBuffer,          \* per request: the streamBuffer of its closure
    onResponseLog,         \* the data passed to onResponseCallback, in order
    \* ---- the calls of start() and stop() in progress
    startCall,
    stopCall,
    \* ---- the worker (environment)
    answered,              \* per process: how many of the requests it read it has dealt with
    streamPos,             \* per process: lines of its current streaming answer already printed
    fuel,                  \* what the environment may still do
    \* ---- history
    clean,                 \* the worker printed nothing but one whole response line per request
    noisy,                 \* requests that saw a malformed line while in flight
    ansKind,               \* per request: how the worker dealt with it, and whether its
                           \* promise was still pending then ("live") or not ("late")
    pendingAtClose,        \* requests in flight on, or queued for, the process in use when it closed
    stopSeq                \* stop() calls returned since the last successful start(); -1: n/a

chatVars == <<chatbotProcess, isRunning, messageQueue, isProcessingMessage,
              procSt, killed, stdinEnded, stdoutOnce, timer, promise, value,
              written, uncaught, startCall, stopCall, answered, fuel,
              clean, noisy, ansKind, pendingAtClose, stopSeq,
              streamBuffer, onResponseLog, streamPos>>

VARIABLES
    \* ---- WhisperService (whisperService.js:13-20) and its worker's stdout
    transcriptBuffer,      \* the messages parsed and handed to handleTranscriptionData
    stream,                \* the bytes the worker writes to stdout
    delivered,             \* how many of them have arrived in 'data' chunks
    callbacks,             \* onTranscriptCallback, onStatusCallback, onErrorCallback; 0 is null
    callbackLog,           \* the calls made to these callbacks, in order
    linesRead              \* the lines the stdout handler looped over, in order

frameVars == <<transcriptBuffer, stream, delivered, callbacks, callbackLog, linesRead>>

VARIABLES
    \* ---- WhisperService fields and its ChildProcess objects
    transcriptionProcess,  \* 0 is null, otherwise the ChildProcess spawned
    whisperIsRunning,      \* WhisperService.isRunning
    whisperProcSt,         \* "unborn", "alive", "exited", "closed"
    whisperKilled,         \* ChildProcess.killed
    whisperSignals,        \* per process: the signals kill() delivered, in order
    \* ---- the calls of WhisperService.start() and stop() in progress
    whisperStart,
    whisperStop

whisperLifeVars == <<transcriptionProcess, whisperIsRunning, whisperProcSt, whisperKilled,
                     whisperSignals, whisperStart, whisperStop>>

whisperVars == <<frameVars, whisperLifeVars>>

VARIABLES
    \* ---- ChatController (chat-controller.js:8-18) and its calls in progress
    chatController,        \* the fields isInitialized, isConnected, isConnecting; listening: setupEventListeners has run
    initCall,              \* where the call of init() is
    connectCall,           \* the calls of connectChatbotService()
    startChatbotOk         \* a startChatbot request of connectChatbotService() has returned success

rendererVars == <<chatController, initCall, connectCall, startChatbotOk>>

vars == <<chatVars, whisperVars, rendererVars>>

\* ------------------------------------------------------------- helpers
Rejected(st) == st \in {"rej_timeout", "rej_error", "rej_send"}
Settled(st) == st = "resolved" \/ Rejected(st)

RECURSIVE SeqToSet(_)
SeqToSet(s) == IF s = <<>> THEN {} ELSE {Head(s)} \cup SeqToSet(Tail(s))

\* The object state a callback reads and writes, as one record.
Self == [cp |-> chatbotProcess, run |-> isRunning, q |-> messageQueue,
         busy |-> isProcessingMessage, once |-> stdoutOnce, tm |-> timer,
         pr |-> promise, val |-> value, wr |-> written, unc |-> uncaught,
         sb |-> streamBuffer, cb |-> onResponseLog]

Commit(S) ==
    /\ chatbotProcess' = S.cp
    /\ isRunning' = S.run
    /\ messageQueue' = S.q
    /\ isProcessingMessage' = S.busy
    /\ stdoutOnce' = S.once
    /\ timer' = S.tm
    /\ promise' = S.pr
    /\ value' = S.val
    /\ written' = S.wr
    /\ uncaught' = S.unc
    /\ streamBuffer' = S.sb
    /\ onResponseLog' = S.cb

Resolve(S, r, d) ==
    IF S.pr[r] = "pending" THEN [S EXCEPT !.pr[r] = "resolved", !.val[r] = d] ELSE S

Reject(S, r, why) ==
    IF S.pr[r] = "pending" THEN [S EXCEPT !.pr[r] = why] ELSE S

\* A queue that hands out its newest element instead of its oldest.
ShiftLifo(q) == [taken |-> q[Len(q)], rest |-> SubSeq(q, 1, Len(q) - 1)]

\* messageQueue.shift(): the request taken, and what is left.
Shift(q) == [taken |-> Head(q), rest |-> Tail(q)]

\* processMessageQueue (chatbotService.js:238-300).  The timer is armed before
\* this.chatbotProcess.stdout is read, so with a null process handle the call
\* ends in a TypeError after the request was taken and its timer armed.
ProcessMessageQueue(S) ==
    IF S.busy \/ S.q = <<>> THEN S
    ELSE LET sh == Shift(S.q)
             r == sh.taken
             S1 == [S EXCEPT !.busy = TRUE, !.q = sh.rest, !.tm[r] = TRUE]
         IN  IF S.cp = 0
             THEN [S1 EXCEPT !.unc = TRUE]
             ELSE [S1 EXCEPT !.once[S.cp] = Append(@, r),
                             !.wr = Append(@, [req |-> r, proc |-> S.cp,
                                               ok |-> ~stdinEnded[S.cp] /\ procSt[S.cp] = "alive"])]

\* handleResponse (chatbotService.js:254-296) on the lines of one chunk.
\* JSON.parse throws on a malformed line; the catch is outside the loop, so the
\* rest of the chunk is not looked at.
RECURSIVE HandleResponse(_, _, _)
HandleResponse(S, r, lines) ==
    IF lines = <<>> THEN S
    ELSE LET l == Head(lines)
             done == [S EXCEPT !.tm[r] = FALSE, !.busy = FALSE]
         IN  CASE l.type = "bad" -> S
               [] l.type = "response" -> ProcessMessageQueue(Resolve(done, r, l.data))
               [] l.type = "stream_chunk" ->
                      HandleResponse([S EXCEPT !.sb[r] = Append(@, l.data),
                                               !.cb = Append(@, l.data)], r, Tail(lines))
               [] l.type = "stream_end" -> ProcessMessageQueue(Resolve(done, r, S.sb[r]))
               [] l.type = "error" -> ProcessMessageQueue(Reject(done, r, "rej_error"))
               [] OTHER -> HandleResponse(S, r, Tail(lines))

\* One 'data' event of p.stdout: every once-listener registered before the
\* emit runs once, in registration order, and is removed; listeners added
\* during the emit wait for the next event.
RECURSIVE FireOnce(_, _, _)
FireOnce(S, ls, lines) ==
    IF ls = <<>> THEN S
    ELSE FireOnce(HandleResponse(S, Head(ls), lines), Tail(ls), lines)

EmitData(S, p, lines) == FireOnce([S EXCEPT !.once[p] = <<>>], S.once[p], lines)

\* The finally block of stop() (chatbotService.js:151-156).
StopFinally(S) == [S EXCEPT !.run = FALSE, !.cp = 0, !.q = <<>>, !.busy = FALSE]

\* ---------------------------------------------------------------- Init
NoStart == [pc |-> "idle", proc |-> 0, t2 |-> FALSE, t5 |-> FALSE,
            out |-> FALSE, err |-> FALSE, onErr |-> FALSE, busy |-> FALSE,
            python |-> TRUE, files |-> TRUE]
\* `starts` of a stop() call that has returned: how many start() calls had
\* been made by then.
NoStop == [pc |-> "idle", proc |-> 0, t3 |-> FALSE, early |-> FALSE, starts |-> 0]
NoWhisperStart == [pc |-> "idle", proc |-> 0, t1 |-> FALSE, busy |-> FALSE,
                   python |-> TRUE, files |-> TRUE, error |-> FALSE]
NoWhisperStop == [pc |-> "idle", proc |-> 0, t5 |-> FALSE, early |-> FALSE, starts |-> 0]

\* The state after the constructor (chatbotService.js:14-22); f is what the
\* callers and the worker may still do.
InitChatbot(f) ==
    /\ chatbotProcess = 0
    /\ isRunning = FALSE
    /\ messageQueue = <<>>
    /\ isProcessingMessage = FALSE
    /\ procSt = [p \in Proc |-> "unborn"]
    /\ killed = [p \in Proc |-> FALSE]
    /\ stdinEnded = [p \in Proc |-> FALSE]
    /\ stdoutOnce = [p \in Proc |-> <<>>]
    /\ timer = [r \in Req |-> FALSE]
    /\ promise = [r \in Req |-> "none"]
    /\ value = [r \in Req |-> 0]
    /\ written = <<>>
    /\ uncaught = FALSE
    /\ startCall = [c \in StartId |-> NoStart]
    /\ stopCall = [s \in StopId |-> NoStop]
    /\ answered = [p \in Proc |-> 0]
    /\ fuel = f
    /\ clean = TRUE
    /\ noisy = {}
    /\ ansKind = [r \in Req |-> "none"]
    /\ pendingAtClose = {}
    /\ stopSeq = -1
    /\ streamBuffer = [r \in Req |-> <<>>]
    /\ onResponseLog = <<>>
    /\ streamPos = [p \in Proc |-> 0]

\* The WhisperService after its constructor (whisperService.js:13-20), with
\* a worker that writes nothing.
NoCallbacks == [transcript |-> 0, status |-> 0, error |-> 0]
\* The ChatController after its constructor (chat-controller.js:8-18).
MaxConnect == 3
ConnectId == 1..MaxConnect
NoConnect == [pc |-> "idle", by |-> "none"]
InitRenderer ==
    /\ chatController = [isInitialized |-> FALSE, isConnected |-> FALSE, isConnecting |-> FALSE,
                         listening |-> FALSE]
    /\ initCall = "idle"
    /\ connectCall = [k \in ConnectId |-> NoConnect]
    /\ startChatbotOk = FALSE

InitWhisper ==
    /\ InitRenderer
    /\ transcriptBuffer = <<>>
    /\ stream = <<>>
    /\ delivered = 0
    /\ callbacks = NoCallbacks
    /\ callbackLog = <<>>
    /\ linesRead = <<>>
    /\ transcriptionProcess = 0
    /\ whisperIsRunning = FALSE
    /\ whisperProcSt = [p \in Proc |-> "unborn"]
    /\ whisperKilled = [p \in Proc |-> FALSE]
    /\ whisperSignals = [p \in Proc |-> <<>>]
    /\ whisperStart = [c \in StartId |-> NoWhisperStart]
    /\ whisperStop = [s \in StopId |-> NoWhisperStop]

InitChat(f) == InitChatbot(f) /\ InitWhisper

\* ------------------------------------------------------ derived notions
Submitted == {r \in Req : promise[r] # "none"}
Pending == {r \in Req : promise[r] = "pending"}
WrittenReqs == {written[i].req : i \in 1..Len(written)}
InFlight == {r \in WrittenReqs : promise[r] = "pending"}
Starting == {c \in StartId : startCall[c].pc \in {"findPython", "waiting"}}
Born == {p \in Proc : procSt[p] # "unborn"}
StartCalls(calls) == Cardinality({c \in StartId : calls[c].pc # "idle"})

\* What worker p has read from its stdin and not dealt with yet.
Inbox(p) == LET Test(w) == w.proc = p /\ w.ok IN SelectSeq(written, Test)
Unanswered(p) == SubSeq(Inbox(p), answered[p] + 1, Len(Inbox(p)))

\* ----------------------------------------------------------- start()
\* start() up to its first await (chatbotService.js:27-34).
StartCall(c) ==
    /\ fuel.start > 0
    /\ startCall[c].pc = "idle"
    /\ \A d \in StartId : d < c => startCall[d].pc # "idle"
    /\ startCall' = [startCall EXCEPT ![c] =
            [@ EXCEPT !.pc = IF isRunning THEN "already" ELSE "findPython",
                      !.busy = isRunning \/ Starting # {}]]
    /\ fuel' = [fuel EXCEPT !.start = @ - 1]
    /\ stopSeq' = -1
    /\ UNCHANGED <<chatbotProcess, isRunning, messageQueue, isProcessingMessage,
                   procSt, killed, stdinEnded, stdoutOnce, timer, promise, value,
                   written, uncaught, stopCall, answered,
                   clean, noisy, ansKind, pendingAtClose>>
    /\ UNCHANGED <<whisperVars, rendererVars>>
    /\ UNCHANGED <<streamBuffer, onResponseLog, streamPos>>

\* A start() that ignores what checkRequiredFiles finds.
CanSpawnUnchecked(python, files) == python

\* The two checks of start() before spawn(): findPython returned a command
\* (chatbotService.js:34-37, whisperService.js:32-35) and checkRequiredFiles
\* did not throw (chatbotService.js:40, whisperService.js:38).
CanSpawn(python, files) == python /\ files

\* start() from the return of findPython to the await of the startup promise
\* (chatbotService.js:35-95), or to the catch block (105-114) when Python
\* (python = FALSE) or a required file (files = FALSE) is missing.
StartSpawn(c, python, files) ==
    /\ startCall[c].pc = "findPython"
    /\ IF CanSpawn(python, files)
       THEN /\ Cardinality(Born) < MaxProc
            /\ LET p == Cardinality(Born) + 1 IN
               /\ chatbotProcess' = p
               /\ procSt' = [procSt EXCEPT ![p] = "alive"]
               /\ startCall' = [startCall EXCEPT ![c] =
                      [@ EXCEPT !.pc = "waiting", !.proc = p, !.t2 = TRUE, !.t5 = TRUE,
                                !.out = TRUE, !.err = TRUE, !.onErr = TRUE,
                                !.python = python, !.files = files]]
            /\ UNCHANGED isRunning
       ELSE /\ isRunning' = FALSE
            /\ startCall' = [startCall EXCEPT ![c] =
                      [@ EXCEPT !.pc = "failed", !.python = python, !.files = files]]
            /\ UNCHANGED <<chatbotProcess, procSt>>
    /\ UNCHANGED <<messageQueue, isProcessingMessage, killed, stdinEnded, stdoutOnce,
                   timer, promise, value, written, uncaught, stopCall, answered, fuel,
                   clean, noisy, ansKind, pendingAtClose, stopSeq>>
    /\ UNCHANGED <<whisperVars, rendererVars>>
    /\ UNCHANGED <<streamBuffer, onResponseLog, streamPos>>

\* The startup promise settles once; a start() that resolves returns true.
StartResolved(sc) == [sc EXCEPT !.pc = IF @ = "waiting" THEN "ok" ELSE @]
StartRejected(sc) == [sc EXCEPT !.pc = IF @ = "waiting" THEN "failed" ELSE @]

\* onData (chatbotService.js:69-74) of the start() calls listening on a stream
\* of p; which is "out" or "err".
OnData(which, p) ==
    [c \in StartId |->
        IF startCall[c].proc = p /\ startCall[c][which]
        THEN [StartResolved(startCall[c]) EXCEPT ![which] = FALSE, !.t5 = FALSE]
        ELSE startCall[c]]
Listening(which, p) == {c \in StartId : startCall[c].proc = p /\ startCall[c][which]}

SeqAfter(sc) ==
    IF \E c \in StartId : startCall[c].pc = "waiting" /\ sc[c].pc = "ok" THEN 0 ELSE stopSeq

\* The 2 s timer of start() (chatbotService.js:87-94); it is never cleared.
Timer2(c) ==
    /\ startCall[c].t2
    /\ LET sc == IF isRunning
                 THEN [startCall EXCEPT ![c].t2 = FALSE]
                 ELSE [startCall EXCEPT ![c] = [StartResolved(@) EXCEPT !.t2 = FALSE, !.t5 = FALSE]]
       IN /\ startCall' = sc
          /\ stopSeq' = SeqAfter(sc)
    /\ isRunning' = TRUE
    /\ UNCHANGED <<chatbotProcess, messageQueue, isProcessingMessage,
                   procSt, killed, stdinEnded, stdoutOnce, timer, promise, value,
                   written, uncaught, stopCall, answered, fuel,
                   clean, noisy, ansKind, pendingAtClose>>
    /\ UNCHANGED <<whisperVars, rendererVars>>
    /\ UNCHANGED <<streamBuffer, onResponseLog, streamPos>>

\* The 5 s timer of start() (chatbotService.js:60-66); armed together with the
\* 2 s timer, it fires after it.
Timer5(c) ==
    /\ startCall[c].t5 /\ ~startCall[c].t2
    /\ LET sc == IF isRunning
                 THEN [startCall EXCEPT ![c] = [StartResolved(@) EXCEPT !.t5 = FALSE]]
                 ELSE [startCall EXCEPT ![c] = [StartRejected(@) EXCEPT !.t5 = FALSE]]
       IN /\ startCall' = sc
          /\ stopSeq' = SeqAfter(sc)
    /\ UNCHANGED <<chatbotProcess, isRunning, messageQueue, isProcessingMessage,
                   procSt, killed, stdinEnded, stdoutOnce, timer, promise, value,
                   written, uncaught, stopCall, answered, fuel,
                   clean, noisy, ansKind, pendingAtClose>>
    /\ UNCHANGED <<whisperVars, rendererVars>>
    /\ UNCHANGED <<streamBuffer, onResponseLog, streamPos>>

\* ------------------------------------------------------- sendMessage()
\* A test that looks at the `killed` flag only.
TerminatedKilledOnly(p) == killed[p]

\* chatbotProcess.killed || chatbotProcess.exitCode !== null
\* (chatbotService.js:185).
Terminated(p) == killed[p] \/ procSt[p] # "alive"

\* sendMessage (chatbotService.js:176-201): the three guards throw, which
\* rejects the promise the async function returns.
SendMessage(r) ==
    /\ fuel.req > 0
    /\ promise[r] = "none"
    /\ \A d \in Req : d < r => promise[d] # "none"
    /\ fuel' = [fuel EXCEPT !.req = @ - 1]
    /\ IF \/ chatbotProcess = 0
          \/ ~isRunning
          \/ Terminated(chatbotProcess)
       THEN Commit([Self EXCEPT !.pr[r] = "rej_send"])
       ELSE Commit(ProcessMessageQueue([Self EXCEPT !.pr[r] = "pending", !.q = Append(@, r)]))
    /\ UNCHANGED <<procSt, killed, stdinEnded, startCall, stopCall, answered,
                   clean, noisy, ansKind, pendingAtClose, stopSeq>>
    /\ UNCHANGED <<whisperVars, rendererVars>>
    /\ UNCHANGED streamPos

\* The 30 s timer of a written request (chatbotService.js:248-252).  All
\* request timers last 30 s, so they fire in the order they were armed, which
\* is the order of the request ids.
Timeout(r) ==
    /\ timer[r]
    /\ \A d \in Req : d < r => ~timer[d]
    /\ Commit(ProcessMessageQueue(
           [Reject([Self EXCEPT !.tm[r] = FALSE], r, "rej_timeout") EXCEPT !.busy = FALSE]))
    /\ UNCHANGED <<procSt, killed, stdinEnded, startCall, stopCall, answered, fuel,
                   clean, noisy, ansKind, pendingAtClose, stopSeq>>
    /\ UNCHANGED <<whisperVars, rendererVars>>
    /\ UNCHANGED streamPos

\* ------------------------------------------------------------ the worker
LineKinds == {"resp", "err", "bad"}
ChunkKinds == UNION {[1..n -> LineKinds] : n \in 1..MaxLines}
IsAnswer(k) == k \in {"resp", "err"}
Answers(kinds) == {i \in 1..Len(kinds) : IsAnswer(kinds[i])}
AnswersBefore(kinds, i) == Cardinality({j \in 1..i : IsAnswer(kinds[j])})

\* The lines of a chunk.  The worker reads its stdin in order and answers a
\* request with one 'response' or one 'error' line, so its n-th answer belongs
\* to the n-th request it read (the data of a response is modelled by the id
\* of the request it answers); "bad" is a line that is not JSON.
LinesOf(p, kinds) ==
    [i \in 1..Len(kinds) |->
        CASE kinds[i] = "resp" ->
                [type |-> "response", data |-> Unanswered(p)[AnswersBefore(kinds, i)].req]
          [] kinds[i] = "err" ->
                [type |-> "error", data |-> Unanswered(p)[AnswersBefore(kinds, i)].req]
          [] OTHER -> [type |-> "bad", data |-> 0]]

\* One 'data' event of p.stdout carrying the chunk `kinds`: the once-listener
\* of start() (onData) and the once-listeners of the written requests.
StdoutData(p, kinds) ==
    /\ procSt[p] \in {"alive", "exited"}
    /\ Cardinality(Answers(kinds)) <= Len(Unanswered(p))
    /\ Len(kinds) - Cardinality(Answers(kinds)) <= fuel.noise
    /\ LET lines == LinesOf(p, kinds)
           fire == Listening("out", p) # {}
           sc == OnData("out", p)
           S0 == [Self EXCEPT !.run = IF fire THEN TRUE ELSE @]
           answers == {lines[i].data : i \in Answers(kinds)}
           responses == {lines[i].data : i \in {j \in 1..Len(kinds) : kinds[j] = "resp"}}
       IN /\ Commit(EmitData(S0, p, lines))
          /\ startCall' = sc
          /\ stopSeq' = SeqAfter(sc)
          /\ answered' = [answered EXCEPT ![p] = @ + Cardinality(Answers(kinds))]
          /\ fuel' = [fuel EXCEPT !.noise = @ - (Len(kinds) - Cardinality(Answers(kinds)))]
          /\ clean' = (clean /\ kinds = <<"resp">> /\ answers \subseteq Pending)
          /\ ansKind' = [r \in Req |->
                IF r \in answers
                THEN (IF r \in Pending THEN "live_" ELSE "late_")
                     \o (IF r \in responses THEN "resp" ELSE "err")
                ELSE ansKind[r]]
          /\ noisy' = noisy \cup IF \E i \in 1..Len(kinds) :
                                       kinds[i] = "bad" /\ AnswersBefore(kinds, i) = 0
                                 THEN InFlight ELSE {}
    /\ UNCHANGED <<procSt, killed, stdinEnded, stopCall, pendingAtClose>>
    /\ UNCHANGED <<whisperVars, rendererVars>>
    /\ UNCHANGED streamPos

\* The worker drops the request it is working on without printing anything.
WorkerSkip(p) ==
    /\ procSt[p] = "alive"
    /\ Unanswered(p) # <<>>
    /\ answered' = [answered EXCEPT ![p] = @ + 1]
    /\ ansKind' = [ansKind EXCEPT ![Unanswered(p)[1].req] = "skipped"]
    /\ clean' = FALSE
    /\ UNCHANGED <<chatbotProcess, isRunning, messageQueue, isProcessingMessage,
                   procSt, killed, stdinEnded, stdoutOnce, timer, promise, value,
                   written, uncaught, startCall, stopCall, fuel,
                   noisy, pendingAtClose, stopSeq>>
    /\ UNCHANGED <<whisperVars, rendererVars>>
    /\ UNCHANGED <<streamBuffer, onResponseLog, streamPos>>

\* One 'data' event of p.stderr that reaches onData of a start() call (the
\* permanent stderr listener, chatbotService.js:310-315, only reports).
StderrData(p) ==
    /\ procSt[p] \in {"alive", "exited"}
    /\ fuel.stderr > 0
    /\ Listening("err", p) # {}
    /\ LET sc == OnData("err", p) IN
       /\ startCall' = sc
       /\ stopSeq' = SeqAfter(sc)
    /\ isRunning' = TRUE
    /\ fuel' = [fuel EXCEPT !.stderr = @ - 1]
    /\ UNCHANGED <<chatbotProcess, messageQueue, isProcessingMessage,
                   procSt, killed, stdinEnded, stdoutOnce, timer, promise, value,
                   written, uncaught, stopCall, answered,
                   clean, noisy, ansKind, pendingAtClose>>
    /\ UNCHANGED <<whisperVars, rendererVars>>
    /\ UNCHANGED <<streamBuffer, onResponseLog, streamPos>>

\* ------------------------------------------------------------- stop()
StopsReturning(sc) == Cardinality({s \in StopId : stopCall[s].pc # "done" /\ sc[s].pc = "done"})
SeqAfterStop(sc) == IF stopSeq >= 0 THEN stopSeq + StopsReturning(sc) ELSE stopSeq

\* stop() up to the await of its wait promise (chatbotService.js:120-147), or
\* its early return (121-123).  `early` records that the call returned at the
\* guard, having written and signalled nothing.
StopCall(s) ==
    /\ fuel.stop > 0
    /\ stopCall[s].pc = "idle"
    /\ \A d \in StopId : d < s => stopCall[d].pc # "idle"
    /\ LET p == chatbotProcess
           sc == IF ~isRunning \/ p = 0
                 THEN [stopCall EXCEPT ![s] = [@ EXCEPT !.pc = "done", !.early = TRUE,
                                                         !.starts = StartCalls(startCall)]]
                 ELSE [stopCall EXCEPT ![s] = [@ EXCEPT !.pc = "waiting", !.proc = p, !.t3 = TRUE]]
       IN /\ stopCall' = sc
          /\ stopSeq' = SeqAfterStop(sc)
          /\ stdinEnded' = IF isRunning /\ p # 0 /\ procSt[p] = "alive"
                           THEN [stdinEnded EXCEPT ![p] = TRUE] ELSE stdinEnded
    /\ fuel' = [fuel EXCEPT !.stop = @ - 1]
    /\ UNCHANGED <<chatbotProcess, isRunning, messageQueue, isProcessingMessage,
                   procSt, killed, stdoutOnce, timer, promise, value,
                   written, uncaught, startCall, answered,
                   clean, noisy, ansKind, pendingAtClose>>
    /\ UNCHANGED <<whisperVars, rendererVars>>
    /\ UNCHANGED <<streamBuffer, onResponseLog, streamPos>>

\* The 3 s timer of stop() (chatbotService.js:136-141) and the finally block
\* that runs when the wait promise resolves.  kill() sets `killed` when the
\* signal could be delivered.
StopTimer3(s) ==
    /\ stopCall[s].t3
    /\ LET p == chatbotProcess
           sc == [stopCall EXCEPT ![s] = [@ EXCEPT !.pc = "done", !.t3 = FALSE,
                                                   !.starts = IF stopCall[s].pc = "waiting"
                                                              THEN StartCalls(startCall) ELSE @]]
       IN /\ killed' = IF p # 0 /\ procSt[p] = "alive"
                       THEN [killed EXCEPT ![p] = TRUE] ELSE killed
          /\ stopCall' = sc
          /\ stopSeq' = SeqAfterStop(sc)
    /\ Commit(StopFinally(Self))
    /\ UNCHANGED <<procSt, stdinEnded, startCall, answered, fuel,
                   clean, noisy, ansKind, pendingAtClose>>
    /\ UNCHANGED <<whisperVars, rendererVars>>
    /\ UNCHANGED streamPos

\* ------------------------------------------------ the worker's exit
\* The worker process ends (on its own, after 'quit', or after a signal):
\* exitCode is set; 'close' follows once its stdio streams have ended.
ProcExit(p) ==
    /\ procSt[p] = "alive"
    /\ procSt' = [procSt EXCEPT ![p] = "exited"]
    /\ UNCHANGED <<chatbotProcess, isRunning, messageQueue, isProcessingMessage,
                   killed, stdinEnded, stdoutOnce, timer, promise, value,
                   written, uncaught, startCall, stopCall, answered, fuel,
                   clean, noisy, ansKind, pendingAtClose, stopSeq>>
    /\ UNCHANGED <<whisperVars, rendererVars>>
    /\ UNCHANGED <<streamBuffer, onResponseLog, streamPos>>

\* The 'close' event of p: the permanent listener of setupProcessHandlers
\* (chatbotService.js:317-325), which writes the fields of the service whatever
\* process they hold, then the listeners of the stop() calls waiting on p
\* (143-146) and their finally blocks (151-156).
ProcClose(p) ==
    /\ procSt[p] = "exited"
    /\ procSt' = [procSt EXCEPT ![p] = "closed"]
    /\ LET waiting == {s \in StopId : stopCall[s].pc = "waiting" /\ stopCall[s].proc = p}
           sc == [s \in StopId |->
                    IF stopCall[s].proc = p /\ stopCall[s].pc # "idle"
                    THEN [stopCall[s] EXCEPT !.pc = "done", !.t3 = FALSE,
                                             !.starts = IF stopCall[s].pc = "waiting"
                                                        THEN StartCalls(startCall) ELSE @]
                    ELSE stopCall[s]]
           S1 == [Self EXCEPT !.run = FALSE, !.cp = 0]
       IN /\ Commit(IF waiting # {} THEN StopFinally(S1) ELSE S1)
          /\ stopCall' = sc
          /\ stopSeq' = SeqAfterStop(sc)
    /\ pendingAtClose' =
          IF chatbotProcess = p
          THEN pendingAtClose \cup
               {r \in Pending : \A i \in DOMAIN written : written[i].req = r => written[i].proc = p}
          ELSE pendingAtClose
    /\ UNCHANGED <<killed, stdinEnded, startCall, answered, fuel,
                   clean, noisy, ansKind>>
    /\ UNCHANGED <<whisperVars, rendererVars>>
    /\ UNCHANGED streamPos

\* The 'error' event of p (the process could not be launched, which Node
\* reports right after spawn(), before the process printed anything and before
\* the timers of its start() fire): the permanent
\* listener (chatbotService.js:327-334), then onError of the start() calls
\* waiting on p (76-80) and their catch blocks (105-114).
ProcError(p) ==
    /\ procSt[p] = "alive"
    /\ fuel.err > 0
    /\ \E c \in StartId : startCall[c].proc = p /\ startCall[c].pc = "waiting"
    /\ fuel' = [fuel EXCEPT !.err = @ - 1]
    /\ procSt' = [procSt EXCEPT ![p] = "exited"]
    /\ isRunning' = FALSE
    /\ startCall' = [c \in StartId |->
            IF startCall[c].proc = p /\ startCall[c].onErr
            THEN [StartRejected(startCall[c]) EXCEPT !.onErr = FALSE, !.t5 = FALSE]
            ELSE startCall[c]]
    /\ UNCHANGED <<chatbotProcess, messageQueue, isProcessingMessage,
                   killed, stdinEnded, stdoutOnce, timer, promise, value,
                   written, uncaught, stopCall, answered,
                   clean, noisy, ansKind, pendingAtClose, stopSeq>>
    /\ UNCHANGED <<whisperVars, rendererVars>>
    /\ UNCHANGED <<streamBuffer, onResponseLog, streamPos>>

\* ------------------------------------------------- request-queue scenario
QueueFuel == [req |-> MaxReq, start |-> 1, stop |-> 0, noise |-> MaxNoise, stderr |-> 0, err |-> 0]
InitQueue == InitChat(QueueFuel)

NextQueue ==
    \/ \E c \in StartId : StartCall(c)
    \/ \E c \in StartId : StartSpawn(c, TRUE, TRUE)
    \/ \E c \in StartId : Timer2(c)
    \/ \E r \in Req : SendMessage(r)
    \/ \E r \in Req : Timeout(r)
    \/ \E p \in Proc, k \in ChunkKinds : StdoutData(p, k)
    \/ \E p \in Proc : WorkerSkip(p)

SpecQueue == InitQueue /\ [][NextQueue]_vars

\* The same events with fewer calls.
FifoFuel == [QueueFuel EXCEPT !.req = MaxFifoReq]
InitFifo == InitChat(FifoFuel)
SpecFifo == InitFifo /\ [][NextQueue]_vars

\* ---------------------------------------------------------- crash scenario
\* The worker exits while requests are unsettled; the caller may start the
\* service again.
CrashFuel == [req |-> MaxLifeReq, start |-> MaxStart, stop |-> 0, noise |-> 0, stderr |-> 0, err |-> 0]
InitCrash == InitChat(CrashFuel)

NextCrash ==
    \/ \E c \in StartId : StartCall(c)
    \/ \E c \in StartId : StartSpawn(c, TRUE, TRUE)
    \/ \E c \in StartId : Timer2(c)
    \/ \E c \in StartId : Timer5(c)
    \/ \E r \in Req : SendMessage(r)
    \/ \E r \in Req : Timeout(r)
    \/ \E p \in Proc, k \in ChunkKinds : StdoutData(p, k)
    \/ \E p \in Proc : ProcExit(p)
    \/ \E p \in Proc : ProcClose(p)

SpecCrash == InitCrash /\ [][NextCrash]_vars

\* ----------------------------------------------------------- stop scenario
\* One start(), one stop(), requests at any time.  Node fires an armed timer
\* and emits 'close' after an exit; nothing obliges the worker to print or to
\* exit, nor the callers to call.
StopFuel == [req |-> MaxLifeReq, start |-> 1, stop |-> 1, noise |-> 0, stderr |-> 0, err |-> 0]
InitStop == InitChat(StopFuel)

NextStop ==
    \/ \E c \in StartId : StartCall(c)
    \/ \E c \in StartId : StartSpawn(c, TRUE, TRUE)
    \/ \E c \in StartId : Timer2(c)
    \/ \E s \in StopId : StopCall(s)
    \/ \E s \in StopId : StopTimer3(s)
    \/ \E r \in Req : SendMessage(r)
    \/ \E r \in Req : Timeout(r)
    \/ \E p \in Proc, k \in ChunkKinds : StdoutData(p, k)
    \/ \E p \in Proc : ProcExit(p)
    \/ \E p \in Proc : ProcClose(p)

TimersFire ==
    /\ \A r \in Req : WF_vars(Timeout(r))
    /\ \A c \in StartId : WF_vars(Timer2(c))
    /\ \A s \in StopId : WF_vars(StopTimer3(s))
    /\ \A p \in Proc : WF_vars(ProcClose(p))

SpecStop == InitStop /\ [][NextStop]_vars

FairSpecStop == SpecStop /\ TimersFire

\* ------------------------------------------------------ lifecycle scenario
\* start() and stop() calls at any time, no requests: either one start() and
\* MaxStop stop() calls, or MaxStart start() calls and one stop().
LifeFuel == {[req |-> 0, start |-> 1, stop |-> MaxStop, noise |-> MaxNoise, stderr |-> 1, err |-> 1],
             [req |-> 0, start |-> MaxStart, stop |-> 1, noise |-> MaxNoise, stderr |-> 1, err |-> 1]}
InitLife == \E f \in LifeFuel : InitChat(f)

NextLife ==
    \/ \E c \in StartId : StartCall(c)
    \/ \E c \in StartId, python \in BOOLEAN, files \in BOOLEAN : StartSpawn(c, python, files)
    \/ \E c \in StartId : Timer2(c)
    \/ \E c \in StartId : Timer5(c)
    \/ \E s \in StopId : StopCall(s)
    \/ \E s \in StopId : StopTimer3(s)
    \/ \E p \in Proc, k \in ChunkKinds : StdoutData(p, k)
    \/ \E p \in Proc : StderrData(p)
    \/ \E p \in Proc : ProcExit(p)
    \/ \E p \in Proc : ProcClose(p)
    \/ \E p \in Proc : ProcError(p)

SpecLife == InitLife /\ [][NextLife]_vars

\* ----------------------------------------------------- streaming answers
\* The lines from+1 .. from+n of a streaming answer: MaxChunks 'stream_chunk'
\* lines, whose data is their position, then one 'stream_end' line.
StreamLines(from, n) ==
    [i \in 1..n |->
        IF from + i <= MaxChunks
        THEN [type |-> "stream_chunk", data |-> from + i]
        ELSE [type |-> "stream_end", data |-> 0]]

\* One 'data' event of p.stdout carrying the next n lines of the streaming
\* answer to the oldest request p has not dealt with.
StdoutStream(p, n) ==
    /\ procSt[p] \in {"alive", "exited"}
    /\ Unanswered(p) # <<>>
    /\ streamPos[p] + n <= MaxChunks + 1
    /\ LET r == Unanswered(p)[1].req
           ended == streamPos[p] + n = MaxChunks + 1
           fire == Listening("out", p) # {}
           sc == OnData("out", p)
           S0 == [Self EXCEPT !.run = IF fire THEN TRUE ELSE @]
       IN /\ Commit(EmitData(S0, p, StreamLines(streamPos[p], n)))
          /\ startCall' = sc
          /\ stopSeq' = SeqAfter(sc)
          /\ streamPos' = [streamPos EXCEPT ![p] = IF ended THEN 0 ELSE @ + n]
          /\ answered' = [answered EXCEPT ![p] = IF ended THEN @ + 1 ELSE @]
          /\ ansKind' = [ansKind EXCEPT ![r] =
                IF ended THEN (IF r \in Pending THEN "live_end" ELSE "late_end") ELSE @]
    /\ clean' = FALSE
    /\ UNCHANGED <<procSt, killed, stdinEnded, stopCall, fuel, noisy, pendingAtClose>>
    /\ UNCHANGED <<whisperVars, rendererVars>>

\* ----------------------------------------------------- streaming scenario
\* Requests whose answers are streamed, in any grouping of the lines into
\* 'data' events.
StreamFuel == [req |-> MaxLifeReq, start |-> 1, stop |-> 0, noise |-> 0, stderr |-> 0, err |-> 0]
InitStream == InitChat(StreamFuel)

NextStream ==
    \/ \E c \in StartId : StartCall(c)
    \/ \E c \in StartId : StartSpawn(c, TRUE, TRUE)
    \/ \E c \in StartId : Timer2(c)
    \/ \E r \in Req : SendMessage(r)
    \/ \E r \in Req : Timeout(r)
    \/ \E p \in Proc, n \in 1..(MaxChunks + 1) : StdoutStream(p, n)

SpecStream == InitStream /\ [][NextStream]_vars

\* ================================================ WhisperService stdout
\* The characters the worker may write: braces (the JSON object {}), a space
\* and the newline that ends a message.
Byte == {"{", "}", " ", "\n"}

\* data.toString().split('\n') (whisperService.js:252): the pieces between
\* newlines, empty ones included.
RECURSIVE Split(_)
Split(s) ==
    IF s = <<>> THEN << <<>> >>
    ELSE LET rest == Split(Tail(s))
         IN IF Head(s) = "\n" THEN << <<>> >> \o rest
            ELSE << <<Head(s)>> \o Head(rest) >> \o Tail(rest)

\* line.trim(): the line without its leading and trailing spaces.
RECURSIVE TrimLeft(_)
TrimLeft(l) == IF l # <<>> /\ Head(l) = " " THEN TrimLeft(Tail(l)) ELSE l
RECURSIVE TrimRight(_)
TrimRight(l) ==
    IF l # <<>> /\ l[Len(l)] = " " THEN TrimRight(SubSeq(l, 1, Len(l) - 1)) ELSE l
Trim(l) == TrimRight(TrimLeft(l))

\* .filter(line => line.trim()) (whisperService.js:252): an empty string is falsy.
RECURSIVE FilterLines(_)
FilterLines(ls) ==
    IF ls = <<>> THEN <<>>
    ELSE IF Trim(Head(ls)) # <<>> THEN <<Head(ls)>> \o FilterLines(Tail(ls))
         ELSE FilterLines(Tail(ls))

\* The members an object of the worker can have: "T" stands for the text
\* "type":"transcript", "S" for "type":"status", "E" for "type":"error" and
\* "U" for a type handleTranscriptionData does not know.
MemberType == [T |-> "transcript", S |-> "status", E |-> "error", U |-> "unknown"]
Member == DOMAIN MemberType

\* JSON.parse(line) (whisperService.js:256) on these characters: white space
\* around the value is skipped; the only values are the object {} and the
\* objects with one member, with optional white space inside; anything else
\* throws SyntaxError.
JsonParse(l) ==
    LET t == Trim(l)
        n == Len(t)
        inner == IF n >= 2 THEN Trim(SubSeq(t, 2, n - 1)) ELSE <<>>
    IN IF n >= 2 /\ t[1] = "{" /\ t[n] = "}" /\ inner = <<>>
       THEN [ok |-> TRUE, val |-> [type |-> "undefined"]]
       ELSE IF n >= 2 /\ t[1] = "{" /\ t[n] = "}" /\ Len(inner) = 1 /\ inner[1] \in Member
       THEN [ok |-> TRUE, val |-> [type |-> MemberType[inner[1]]]]
       ELSE [ok |-> FALSE, val |-> [type |-> "undefined"]]

\* transcriptBuffer is cut to its last BufferKeep entries when it grows
\* beyond BufferCap (whisperService.js:297-300).
BufferCap == 1000
BufferKeep == 800

\* The switch of handleTranscriptionData (whisperService.js:303-332): the
\* call it makes for a message, if any, given the registered callbacks.
Dispatch(cbs, data) ==
    CASE data.type = "transcript" /\ cbs.transcript # 0 ->
             <<[fn |-> cbs.transcript, on |-> "transcript", arg |-> data]>>
      [] data.type = "status" /\ cbs.status # 0 ->
             <<[fn |-> cbs.status, on |-> "status", arg |-> data]>>
      [] data.type = "error" /\ cbs.error # 0 ->
             <<[fn |-> cbs.error, on |-> "error", arg |-> data]>>
      [] OTHER -> <<>>

HandleTranscriptionDataKeepOldest(W, cbs, data) ==
    LET b == Append(W.buf, data)
    IN [buf |-> IF Len(b) > BufferCap THEN SubSeq(b, 1, BufferKeep) ELSE b,
        log |-> W.log \o Dispatch(cbs, data)]

\* handleTranscriptionData (whisperService.js:293-333) on the buffer and the
\* log of calls W; the callbacks it calls keep no state of the service.
HandleTranscriptionData(W, cbs, data) ==
    LET b == Append(W.buf, data)
    IN [buf |-> IF Len(b) > BufferCap THEN SubSeq(b, Len(b) - BufferKeep + 1, Len(b)) ELSE b,
        log |-> W.log \o Dispatch(cbs, data)]

\* The for loop of the stdout handler (whisperService.js:254-262): a line that
\* does not parse is logged and skipped.
RECURSIVE ForEachLineBackwards(_, _, _)
ForEachLineBackwards(W, cbs, ls) ==
    IF ls = <<>> THEN W
    ELSE LET parsed == JsonParse(ls[Len(ls)])
         IN ForEachLineBackwards(IF parsed.ok THEN HandleTranscriptionData(W, cbs, parsed.val) ELSE W,
                                 cbs, SubSeq(ls, 1, Len(ls) - 1))

RECURSIVE ForEachLineUntilError(_, _, _)
ForEachLineUntilError(W, cbs, ls) ==
    IF ls = <<>> THEN W
    ELSE LET parsed == JsonParse(Head(ls))
         IN IF parsed.ok
            THEN ForEachLineUntilError(HandleTranscriptionData(W, cbs, parsed.val), cbs, Tail(ls))
            ELSE W

RECURSIVE ForEachLine(_, _, _)
ForEachLine(W, cbs, ls) ==
    IF ls = <<>> THEN W
    ELSE LET parsed == JsonParse(Head(ls))
         IN ForEachLine(IF parsed.ok THEN HandleTranscriptionData(W, cbs, parsed.val) ELSE W,
                        cbs, Tail(ls))

\* The stdout 'data' listener (whisperService.js:251-263) on one chunk.
StdoutLines(chunk) == FilterLines(Split(chunk))
StdoutHandler(W, cbs, chunk) == ForEachLine(W, cbs, StdoutLines(chunk))

\* All texts of at most n bytes.
RECURSIVE Texts(_)
Texts(n) ==
    IF n = 0 THEN {<<>>}
    ELSE LET shorter == Texts(n - 1)
         IN shorter \cup {Append(t, b) : t \in {x \in shorter : Len(x) = n - 1}, b \in Byte}

\* The worker is running and will write any text of at most MaxBytes bytes.
IdleFuel == [req |-> 0, start |-> 0, stop |-> 0, noise |-> 0, stderr |-> 0, err |-> 0]
InitFraming ==
    /\ InitChatbot(IdleFuel)
    /\ InitRenderer
    /\ transcriptBuffer = <<>>
    /\ stream \in Texts(MaxBytes)
    /\ delivered = 0
    /\ callbacks = NoCallbacks
    /\ callbackLog = <<>>
    /\ linesRead = <<>>
    /\ transcriptionProcess = 0
    /\ whisperIsRunning = FALSE
    /\ whisperProcSt = [p \in Proc |-> "unborn"]
    /\ whisperKilled = [p \in Proc |-> FALSE]
    /\ whisperSignals = [p \in Proc |-> <<>>]
    /\ whisperStart = [c \in StartId |-> NoWhisperStart]
    /\ whisperStop = [s \in StopId |-> NoWhisperStop]

\* One 'data' event: the pipe delivers the next n bytes, n >= 1, as one chunk.
WhisperStdoutData(n) ==
    /\ delivered + n <= Len(stream)
    /\ LET chunk == SubSeq(stream, delivered + 1, delivered + n)
           W == StdoutHandler([buf |-> transcriptBuffer, log |-> callbackLog], callbacks, chunk)
           lines == StdoutLines(chunk)
       IN /\ transcriptBuffer' = W.buf
          /\ callbackLog' = W.log
          /\ linesRead' = linesRead \o lines
    /\ delivered' = delivered + n
    /\ UNCHANGED <<stream, callbacks, chatVars, whisperLifeVars, rendererVars>>

NextFraming == \E n \in 1..MaxBytes : WhisperStdoutData(n)

SpecFraming == InitFraming /\ [][NextFraming]_vars

\* ------------------------------------------------ messages and callbacks
\* onTranscript, onStatus, onError (whisperService.js:149-165): the callback
\* replaces the one registered before; 0 is null.  The application registers
\* its callbacks once, after it has constructed the service and before it
\* starts the worker (part_006:75-100).
MaxLinesOut == 2
Callback == {1}
BeforeOutput(kind) == delivered = 0 /\ callbacks[kind] = 0

OnTranscript(cb) ==
    /\ BeforeOutput("transcript")
    /\ callbacks' = [callbacks EXCEPT !.transcript = cb]
    /\ UNCHANGED <<transcriptBuffer, stream, delivered, callbackLog, linesRead, rendererVars,
                   chatVars, whisperLifeVars>>

OnStatus(cb) ==
    /\ BeforeOutput("status")
    /\ callbacks' = [callbacks EXCEPT !.status = cb]
    /\ UNCHANGED <<transcriptBuffer, stream, delivered, callbackLog, linesRead, rendererVars,
                   chatVars, whisperLifeVars>>

OnError(cb) ==
    /\ BeforeOutput("error")
    /\ callbacks' = [callbacks EXCEPT !.error = cb]
    /\ UNCHANGED <<transcriptBuffer, stream, delivered, callbackLog, linesRead, rendererVars,
                   chatVars, whisperLifeVars>>

\* The lines the worker prints: a message of each type handleTranscriptionData
\* knows, one of a type it does not know, an object without type, and a line
\* of plain text.
WorkerLine == {<<"{", "T", "}">>, <<"{", "S", "}">>, <<"{", "E", "}">>, <<"{", "U", "}">>,
               <<"{", "}">>, <<"x">>}

\* What the worker writes when it prints at most n such lines.
RECURSIVE WorkerStreams(_)
WorkerStreams(n) ==
    IF n = 0 THEN {<<>>}
    ELSE WorkerStreams(n - 1) \cup
         {t \o l \o <<"\n">> : t \in WorkerStreams(n - 1), l \in WorkerLine}

\* ============================================= WhisperService lifecycle
WhisperStarting == {c \in StartId : whisperStart[c].pc \in {"findPython", "waiting"}}
WhisperBorn == {p \in Proc : whisperProcSt[p] # "unborn"}

\* ChildProcess.kill(sig) on p: the signal is delivered, and `killed` set,
\* only while the process has not exited.
Kill(S, p, sig) ==
    IF S.st[p] = "alive"
    THEN [S EXCEPT !.killed[p] = TRUE, !.signals[p] = Append(@, sig)]
    ELSE S

WhisperSelf == [tp |-> transcriptionProcess, run |-> whisperIsRunning, st |-> whisperProcSt,
                killed |-> whisperKilled, signals |-> whisperSignals, stop |-> whisperStop]

WhisperCommit(S) ==
    /\ transcriptionProcess' = S.tp
    /\ whisperIsRunning' = S.run
    /\ whisperProcSt' = S.st
    /\ whisperKilled' = S.killed
    /\ whisperSignals' = S.signals
    /\ whisperStop' = S.stop

\* start() up to its first await (whisperService.js:25-32).
WhisperStartCall(c) ==
    /\ fuel.start > 0
    /\ whisperStart[c].pc = "idle"
    /\ \A d \in StartId : d < c => whisperStart[d].pc # "idle"
    /\ whisperStart' = [whisperStart EXCEPT ![c] =
            [@ EXCEPT !.pc = IF whisperIsRunning THEN "already" ELSE "findPython",
                      !.busy = whisperIsRunning \/ WhisperStarting # {}]]
    /\ fuel' = [fuel EXCEPT !.start = @ - 1]
    /\ UNCHANGED <<transcriptionProcess, whisperIsRunning, whisperProcSt, whisperKilled,
                   whisperSignals, whisperStop, frameVars, rendererVars>>
    /\ UNCHANGED <<chatbotProcess, isRunning, messageQueue, isProcessingMessage,
                   procSt, killed, stdinEnded, stdoutOnce, timer, promise, value,
                   written, uncaught, startCall, stopCall, answered,
                   clean, noisy, ansKind, pendingAtClose, stopSeq>>
    /\ UNCHANGED <<streamBuffer, onResponseLog, streamPos>>

\* start() from the return of findPython to the await of the 1 s wait
\* (whisperService.js:33-57), or to the catch block (62-66) when Python or a
\* required file is missing.
WhisperStartSpawn(c, python, files) ==
    /\ whisperStart[c].pc = "findPython"
    /\ IF CanSpawn(python, files)
       THEN /\ Cardinality(WhisperBorn) < MaxProc
            /\ LET p == Cardinality(WhisperBorn) + 1 IN
               /\ transcriptionProcess' = p
               /\ whisperProcSt' = [whisperProcSt EXCEPT ![p] = "alive"]
               /\ whisperStart' = [whisperStart EXCEPT ![c] =
                      [@ EXCEPT !.pc = "waiting", !.proc = p, !.t1 = TRUE,
                                !.python = python, !.files = files]]
            /\ whisperIsRunning' = TRUE
       ELSE /\ whisperIsRunning' = FALSE
            /\ whisperStart' = [whisperStart EXCEPT ![c] =
                      [@ EXCEPT !.pc = "failed", !.python = python, !.files = files]]
            /\ UNCHANGED <<transcriptionProcess, whisperProcSt>>
    /\ UNCHANGED <<whisperKilled, whisperSignals, whisperStop, frameVars, rendererVars, chatVars>>

\* The 1 s wait of start() is over (whisperService.js:57-60): start() returns true.
WhisperTimer1(c) ==
    /\ whisperStart[c].t1
    /\ whisperStart' = [whisperStart EXCEPT ![c] = [@ EXCEPT !.t1 = FALSE, !.pc = "ok"]]
    /\ UNCHANGED <<transcriptionProcess, whisperIsRunning, whisperProcSt, whisperKilled,
                   whisperSignals, whisperStop, frameVars, rendererVars, chatVars>>

\* The statements after the wait promise of stop() (whisperService.js:98-100)
\* for the stop() calls in `calls`.
WhisperStopReturn(S, calls) ==
    IF calls = {} THEN S
    ELSE [S EXCEPT !.tp = 0, !.run = FALSE,
                   !.stop = [s \in StopId |->
                                IF s \in calls
                                THEN [@[s] EXCEPT !.pc = "done", !.starts = StartCalls(whisperStart)]
                                ELSE @[s]]]

\* stop() up to the await of its wait promise (whisperService.js:72-96), or
\* its early return (73-75).
WhisperStopCall(s) ==
    /\ fuel.stop > 0
    /\ whisperStop[s].pc = "idle"
    /\ \A d \in StopId : d < s => whisperStop[d].pc # "idle"
    /\ fuel' = [fuel EXCEPT !.stop = @ - 1]
    /\ LET p == transcriptionProcess IN
       IF ~whisperIsRunning \/ p = 0
       THEN WhisperCommit([WhisperSelf EXCEPT !.stop[s] = [@ EXCEPT !.pc = "done", !.early = TRUE,
                                                            !.starts = StartCalls(whisperStart)]])
       ELSE WhisperCommit([Kill(WhisperSelf, p, "SIGINT") EXCEPT
                               !.stop[s] = [@ EXCEPT !.pc = "waiting", !.proc = p, !.t5 = TRUE]])
    /\ UNCHANGED <<whisperStart, frameVars, rendererVars>>
    /\ UNCHANGED <<chatbotProcess, isRunning, messageQueue, isProcessingMessage,
                   procSt, killed, stdinEnded, stdoutOnce, timer, promise, value,
                   written, uncaught, startCall, stopCall, answered,
                   clean, noisy, ansKind, pendingAtClose, stopSeq>>
    /\ UNCHANGED <<streamBuffer, onResponseLog, streamPos>>

\* The 5 s timer of stop() (whisperService.js:90-95): it kills and resolves
\* only if the process handle is set and its `killed` flag is not.
WhisperStopTimer5(s) ==
    /\ whisperStop[s].t5
    /\ LET p == transcriptionProcess
           S0 == [WhisperSelf EXCEPT !.stop[s].t5 = FALSE]
       IN IF p # 0 /\ ~whisperKilled[p]
          THEN WhisperCommit(WhisperStopReturn(Kill(S0, p, "SIGKILL"),
                                               IF whisperStop[s].pc = "waiting" THEN {s} ELSE {}))
          ELSE WhisperCommit(S0)
    /\ UNCHANGED <<whisperStart, frameVars, rendererVars, chatVars>>

\* The worker process ends and 'exit' is emitted: the listeners of the stop()
\* calls waiting on p (whisperService.js:85-87) resolve their wait promises.
WhisperProcExit(p) ==
    /\ whisperProcSt[p] = "alive"
    /\ WhisperCommit(WhisperStopReturn([WhisperSelf EXCEPT !.st[p] = "exited"],
           {s \in StopId : whisperStop[s].pc = "waiting" /\ whisperStop[s].proc = p}))
    /\ UNCHANGED <<whisperStart, frameVars, rendererVars, chatVars>>

\* The 'close' event of p (whisperService.js:274-278).
WhisperProcClose(p) ==
    /\ whisperProcSt[p] = "exited"
    /\ WhisperCommit([WhisperSelf EXCEPT !.st[p] = "closed", !.run = FALSE, !.tp = 0])
    /\ UNCHANGED <<whisperStart, frameVars, rendererVars, chatVars>>

\* The 'error' event of p (the process could not be launched, reported right
\* after spawn(), before the 1 s wait of its start() is over): the permanent
\* listener (whisperService.js:281-287).  No 'exit' is emitted for such a
\* process; its 'close' follows.
WhisperProcError(p) ==
    /\ whisperProcSt[p] = "alive"
    /\ fuel.err > 0
    /\ \E c \in StartId : whisperStart[c].proc = p /\ whisperStart[c].pc = "waiting"
    /\ fuel' = [fuel EXCEPT !.err = @ - 1]
    /\ WhisperCommit([WhisperSelf EXCEPT !.st[p] = "exited", !.run = FALSE])
    /\ whisperStart' = [c \in StartId |->
            IF whisperStart[c].proc = p /\ whisperStart[c].pc = "waiting"
            THEN [whisperStart[c] EXCEPT !.error = TRUE] ELSE whisperStart[c]]
    /\ UNCHANGED <<frameVars, rendererVars>>
    /\ UNCHANGED <<chatbotProcess, isRunning, messageQueue, isProcessingMessage,
                   procSt, killed, stdinEnded, stdoutOnce, timer, promise, value,
                   written, uncaught, startCall, stopCall, answered,
                   clean, noisy, ansKind, pendingAtClose, stopSeq>>
    /\ UNCHANGED <<streamBuffer, onResponseLog, streamPos>>

\* ------------------------------------------- Whisper messages scenario
\* One start(); the worker prints at most MaxLinesOut lines, which arrive in
\* chunks of any size once it is spawned.
EventsFuel == [IdleFuel EXCEPT !.start = 1]
InitEvents ==
    /\ InitChatbot(EventsFuel)
    /\ InitRenderer
    /\ transcriptBuffer = <<>>
    /\ stream \in WorkerStreams(MaxLinesOut)
    /\ delivered = 0
    /\ callbacks = NoCallbacks
    /\ callbackLog = <<>>
    /\ linesRead = <<>>
    /\ transcriptionProcess = 0
    /\ whisperIsRunning = FALSE
    /\ whisperProcSt = [p \in Proc |-> "unborn"]
    /\ whisperKilled = [p \in Proc |-> FALSE]
    /\ whisperSignals = [p \in Proc |-> <<>>]
    /\ whisperStart = [c \in StartId |-> NoWhisperStart]
    /\ whisperStop = [s \in StopId |-> NoWhisperStop]

NextEvents ==
    \/ \E c \in StartId : WhisperStartCall(c)
    \/ \E c \in StartId : WhisperStartSpawn(c, TRUE, TRUE)
    \/ \E c \in StartId : WhisperTimer1(c)
    \/ \E n \in 1..Len(stream) : transcriptionProcess # 0 /\ WhisperStdoutData(n)
    \/ \E cb \in Callback : OnTranscript(cb)
    \/ \E cb \in Callback : OnStatus(cb)
    \/ \E cb \in Callback : OnError(cb)

SpecEvents == InitEvents /\ [][NextEvents]_vars

\* ------------------------------------------- Whisper long-run scenario
\* A worker that prints one message per line and flushes each line: line k
\* holds a message whose type goes round the first `period` of Letters, and the
\* lines arrive one or two to a chunk.  It prints enough lines to fill
\* transcriptBuffer beyond BufferCap twice, and MaxOver lines more.
MaxOver == 2
LineBytes == 4
Letters == <<"T", "S", "E", "U">>
LongLines == BufferCap + (BufferCap - BufferKeep) + MaxOver
LongStream(period) ==
    [j \in 1..(LineBytes * LongLines) |->
        CASE j % LineBytes = 1 -> "{"
          [] j % LineBytes = 2 -> Letters[(((j - 1) \div LineBytes) % period) + 1]
          [] j % LineBytes = 3 -> "}"
          [] OTHER -> "\n"]

InitBuffer ==
    /\ InitChatbot(IdleFuel)
    /\ InitRenderer
    /\ transcriptBuffer = <<>>
    /\ stream \in {LongStream(period) : period \in 2..Len(Letters)}
    /\ delivered = 0
    /\ callbacks = NoCallbacks
    /\ callbackLog = <<>>
    /\ linesRead = <<>>
    /\ transcriptionProcess = 0
    /\ whisperIsRunning = FALSE
    /\ whisperProcSt = [p \in Proc |-> "unborn"]
    /\ whisperKilled = [p \in Proc |-> FALSE]
    /\ whisperSignals = [p \in Proc |-> <<>>]
    /\ whisperStart = [c \in StartId |-> NoWhisperStart]
    /\ whisperStop = [s \in StopId |-> NoWhisperStop]

NextBuffer == \E lines \in 1..2 : WhisperStdoutData(lines * LineBytes)

SpecBuffer == InitBuffer /\ [][NextBuffer]_vars

\* ====================================================== ChatController
\* connectChatbotService (chat-controller.js:114-141) up to the await of
\* startChatbot, called by `by`: it returns at once when the controller is
\* connecting or connected.
FreeConnect == {k \in ConnectId : connectCall[k].pc = "idle"}
Connect(C, calls, by) ==
    LET k == CHOOSE i \in FreeConnect : \A j \in FreeConnect : i <= j
    IN IF C.isConnecting \/ C.isConnected
       THEN [ctl |-> C, calls |-> [calls EXCEPT ![k] = [pc |-> "skipped", by |-> by]]]
       ELSE [ctl |-> [C EXCEPT !.isConnecting = TRUE],
             calls |-> [calls EXCEPT ![k] = [pc |-> "start", by |-> by]]]

\* init() up to its first await (chat-controller.js:23-41): it throws into
\* its catch block when a DOM element is missing; otherwise it sets up the
\* event listeners and initializeChatbotService() sends initializeChatbot.
ControllerInit(dom) ==
    /\ initCall = "idle"
    /\ IF dom
       THEN /\ chatController' = [chatController EXCEPT !.listening = TRUE]
            /\ initCall' = "initialize"
       ELSE /\ initCall' = "failed"
            /\ UNCHANGED chatController
    /\ UNCHANGED <<connectCall, startChatbotOk, chatVars, whisperVars>>

\* The answer to initializeChatbot (part_006:187-218): the rest of
\* initializeChatbotService (chat-controller.js:93-108), then init() calls
\* connectChatbotService() (44), which either returns at once, so that init()
\* ends (46), or sends startChatbot.
InitializeReturns(success) ==
    /\ initCall = "initialize"
    /\ FreeConnect # {}
    /\ LET C == [chatController EXCEPT !.isConnected = success]
           R == Connect(C, connectCall, "init")
           returned == C.isConnecting \/ C.isConnected
       IN /\ connectCall' = R.calls
          /\ chatController' = IF returned THEN [R.ctl EXCEPT !.isInitialized = TRUE] ELSE R.ctl
          /\ initCall' = IF returned THEN "done" ELSE "connect"
    /\ UNCHANGED <<startChatbotOk, chatVars, whisperVars>>

\* The document event 'app-initialized' (chat-controller.js:79-82).
AppInitialized ==
    /\ chatController.listening
    /\ FreeConnect # {}
    /\ LET R == Connect(chatController, connectCall, "event")
       IN /\ connectCall' = R.calls
          /\ chatController' = R.ctl
    /\ UNCHANGED <<initCall, startChatbotOk, chatVars, whisperVars>>

\* The answer to the startChatbot of call k (part_006:220-237): the rest of
\* connectChatbotService (chat-controller.js:124-140), and the end of init()
\* (46) when init() made the call.
StartChatbotReturns(k, success) ==
    /\ connectCall[k].pc = "start"
    /\ connectCall' = [connectCall EXCEPT ![k].pc = IF success THEN "done" ELSE "failed"]
    /\ chatController' = [chatController EXCEPT
            !.isConnected = success, !.isConnecting = FALSE,
            !.isInitialized = IF connectCall[k].by = "init" THEN TRUE ELSE @]
    /\ initCall' = IF connectCall[k].by = "init" THEN "done" ELSE initCall
    /\ startChatbotOk' = (startChatbotOk \/ success)
    /\ UNCHANGED <<chatVars, whisperVars>>

\* destroy() (chat-controller.js:280-287).
Destroy ==
    /\ chatController' = [chatController EXCEPT !.isInitialized = FALSE, !.isConnected = FALSE,
                                                !.isConnecting = FALSE]
    /\ UNCHANGED <<initCall, connectCall, startChatbotOk, chatVars, whisperVars>>

InitController == InitChat(IdleFuel)

NextController ==
    \/ \E dom \in BOOLEAN : ControllerInit(dom)
    \/ \E success \in BOOLEAN : InitializeReturns(success)
    \/ AppInitialized
    \/ \E k \in ConnectId, success \in BOOLEAN : StartChatbotReturns(k, success)
    \/ Destroy

SpecController == InitController /\ [][NextController]_vars

\* ------------------------------------------- Whisper lifecycle scenario
\* start() and stop() calls on the WhisperService at any time.
WhisperFuel == [req |-> 0, start |-> MaxStart, stop |-> MaxStop, noise |-> 0, stderr |-> 0, err |-> 1]
InitWhisperLife == InitChat(WhisperFuel)

NextWhisper ==
    \/ \E c \in StartId : WhisperStartCall(c)
    \/ \E c \in StartId, python \in BOOLEAN, files \in BOOLEAN : WhisperStartSpawn(c, python, files)
    \/ \E c \in StartId : WhisperTimer1(c)
    \/ \E s \in StopId : WhisperStopCall(s)
    \/ \E s \in StopId : WhisperStopTimer5(s)
    \/ \E p \in Proc : WhisperProcExit(p)
    \/ \E p \in Proc : WhisperProcClose(p)
    \/ \E p \in Proc : WhisperProcError(p)

SpecWhisper == InitWhisperLife /\ [][NextWhisper]_vars

\* Node fires an armed timer and emits 'close' after an exit; nothing obliges
\* the worker to exit.
WhisperTimersFire ==
    /\ \A c \in StartId : WF_vars(WhisperTimer1(c))
    /\ \A s \in StopId : WF_vars(WhisperStopTimer5(s))
    /\ \A p \in Proc : WF_vars(WhisperProcClose(p))

FairSpecWhisper == InitWhisperLife /\ [][NextWhisper]_vars /\ WhisperTimersFire

\* ------------------------------------------------- start-up scenario
\* start() calls on both services, with or without their dependencies, and
\* workers that may fail to launch or exit; nobody calls stop().
StartFuel == [req |-> 0, start |-> MaxStart, stop |-> 0, noise |-> 0, stderr |-> 0, err |-> 1]
InitStart == InitChat(StartFuel)

NextStart ==
    \/ \E c \in StartId : StartCall(c)
    \/ \E c \in StartId, python \in BOOLEAN, files \in BOOLEAN : StartSpawn(c, python, files)
    \/ \E c \in StartId : Timer2(c)
    \/ \E p \in Proc : ProcExit(p)
    \/ \E p \in Proc : ProcClose(p)
    \/ \E c \in StartId : WhisperStartCall(c)
    \/ \E c \in StartId, python \in BOOLEAN, files \in BOOLEAN : WhisperStartSpawn(c, python, files)
    \/ \E c \in StartId : WhisperTimer1(c)
    \/ \E p \in Proc : WhisperProcExit(p)
    \/ \E p \in Proc : WhisperProcClose(p)
    \/ \E p \in Proc : ProcError(p)
    \/ \E p \in Proc : WhisperProcError(p)

SpecStart == InitStart /\ [][NextStart]_vars

\* ================================================= claims, request queue
RECURSIVE SortedSeq(_)
SortedSeq(S) ==
    IF S = {} THEN <<>>
    ELSE LET m == CHOOSE x \in S : \A y \in S : x <= y
         IN  <<m>> \o SortedSeq(S \ {m})

WrittenIds == [i \in 1..Len(written) |-> written[i].req]
Accepted == {r \in Req : promise[r] \notin {"none", "rej_send"}}
IsPrefix(s, t) == Len(s) <= Len(t) /\ \A i \in 1..Len(s) : s[i] = t[i]
LiveAnswered == {r \in Req : ansKind[r] = "live_resp"}
NoTimeoutFired == \A r \in Req : promise[r] # "rej_timeout"

\* C1 (FIFO correlation): while the worker prints exactly one whole response
\* line per request it reads, in order, and no 30 s timeout has fired, the
\* requests written to stdin are the accepted sendMessage() calls in
\* submission order, every request whose response line has arrived is
\* resolved, and every resolved request holds the response to itself (the
\* i-th call holds the i-th response).
C1_FifoCorrelation ==
    (clean /\ NoTimeoutFired) =>
        /\ IsPrefix(WrittenIds, SortedSeq(Accepted))
        /\ \A r \in LiveAnswered : promise[r] = "resolved"
        /\ \A r \in Accepted : promise[r] = "resolved" => value[r] = r
        /\ \A r \in Accepted : ~Rejected(promise[r])

\* C1 witness: three calls were made before the first response; the first is
\* resolved with its own response, the second is in flight, the third waits.
C1_Witness ==
    /\ clean /\ NoTimeoutFired
    /\ promise[1] = "resolved" /\ value[1] = 1
    /\ InFlight = {2}
    /\ messageQueue = <<3>>

\* C2 (at most one in flight): at most one written request is unsettled, and
\* every other unsettled request waits in messageQueue.
C2_AtMostOneInFlight ==
    /\ Cardinality(InFlight) <= 1
    /\ \A r \in Pending : r \in InFlight \/ r \in SeqToSet(messageQueue)

\* C5 (timeout isolation): as long as the worker has answered no request
\* whose timeout fired, every resolved request holds the worker's response to
\* that request itself.
C5_TimeoutIsolation ==
    (\A r \in Req : promise[r] = "rej_timeout" => ansKind[r] \in {"none", "skipped"}) =>
        \A r \in Req : promise[r] = "resolved" => value[r] = r

\* C6 (orphaned late response): the response line the worker prints for a
\* request already rejected by its timeout is an orphan: no promise is
\* resolved with it.
C6_LateResponseOrphaned ==
    \A r \in Req :
        promise[r] = "resolved" =>
            ~(ansKind[value[r]] = "late_resp" /\ promise[value[r]] = "rej_timeout")

\* C7 (malformed tolerance): a request that saw a malformed line while in
\* flight, and whose response line then arrived while it was still pending,
\* is resolved with that response.
C7_MalformedTolerance ==
    \A r \in noisy \cap LiveAnswered : promise[r] = "resolved" /\ value[r] = r

\* ===================================================== claims, lifecycle
NoTimerArmed == \A r \in Req : ~timer[r]

\* C3 (crash propagation): once the timers of the requests that were unsettled
\* when the worker closed have run out, every one of those requests is
\* rejected and messageQueue is empty (start() being called only on a service
\* that is neither starting nor running).
C3_CrashPropagation ==
    (pendingAtClose # {} /\ NoTimerArmed /\ \A c \in StartId : ~startCall[c].busy) =>
        /\ \A r \in pendingAtClose : Rejected(promise[r])
        /\ messageQueue = <<>>

\* C4 (every promise settles): a pending sendMessage() promise is eventually
\* resolved or rejected.
C4_EverySendSettles ==
    \A r \in Req : (promise[r] = "pending") ~> Settled(promise[r])

\* C9 (idempotent stop): a stop() call that returns on a service never
\* started, or as the second stop() to return after a successful start(),
\* leaves isRunning false and the process handle null; a stop() called on a
\* stopped service returns at once, sends no signal and writes nothing.
C9_IdempotentStop ==
    [][ \A s \in StopId :
          /\ ( /\ stopCall[s].pc # "done" /\ stopCall'[s].pc = "done"
               /\ \/ \A c \in StartId : startCall[c].pc = "idle"
                  \/ stopSeq' = 2 )
             => (isRunning' = FALSE /\ chatbotProcess' = 0)
          /\ ( /\ stopCall[s].pc = "idle" /\ stopCall'[s].pc # "idle"
               /\ ~isRunning /\ chatbotProcess = 0 )
             => ( /\ stopCall'[s].pc = "done"
                  /\ UNCHANGED <<isRunning, chatbotProcess, killed, stdinEnded, written>> )
      ]_vars

\* C10 (already running): a start() called while the service is running, or
\* while another start() has not resolved yet, fails with 'already running'
\* and spawns no process.
C10_StartRejectedWhenBusy ==
    \A c \in StartId :
        startCall[c].busy => (startCall[c].pc = "already" /\ startCall[c].proc = 0)

\* ======================================================= claims, framing
EndsWithNewline(s) == s # <<>> /\ s[Len(s)] = "\n"

\* C8 (framing): once all the bytes of a stream of newline-terminated lines
\* have arrived, in whatever chunks, the messages parsed and dispatched are
\* those the handler parses and dispatches when the whole stream arrives as
\* one chunk.
C8_FramingCorrectness ==
    (delivered = Len(stream) /\ EndsWithNewline(stream)) =>
        transcriptBuffer = StdoutHandler([buf |-> <<>>, log |-> <<>>], callbacks, stream).buf

\* ============================================ claims, workers and start()
Alive == {p \in Proc : procSt[p] = "alive"}
NoOverlappingStart == \A c \in StartId : ~startCall[c].busy

\* C11 (one live worker): the service never has two processes it spawned
\* alive at the same time (start() being called only on a service that is
\* neither starting nor running).
C11_OneLiveWorker == NoOverlappingStart => Cardinality(Alive) <= 1

\* C12 (success only for a live worker): a start() call resolves with success
\* only if the 'close' of the process it spawned has not been handled before.
C12_StartSuccessOnlyIfLive ==
    [][ \A c \in StartId :
          (startCall[c].pc = "waiting" /\ startCall'[c].pc = "ok")
              => procSt[startCall[c].proc] # "closed" ]_vars

LatestStart(calls, c) == calls[c].pc # "idle" /\ \A d \in StartId : d > c => calls[d].pc = "idle"

\* C14 (spawn error): a start() whose process emitted 'error' while it was in
\* progress is rejected, never resolved, and as long as no later start() is
\* called isRunning stays false; in ChatbotService and in WhisperService.
C14_SpawnError ==
    /\ \A c \in StartId :
          (startCall[c].proc # 0 /\ ~startCall[c].onErr) =>
              /\ startCall[c].pc = "failed"
              /\ LatestStart(startCall, c) => ~isRunning
    /\ \A c \in StartId :
          whisperStart[c].error =>
              /\ whisperStart[c].pc # "ok"
              /\ LatestStart(whisperStart, c) => ~whisperIsRunning

\* ================================================== claims, stop()
\* C15 (force-kill after the grace period): when the grace timer of a stop()
\* fires while that stop() is still waiting and the worker it stops has not
\* exited, the worker is sent SIGKILL (WhisperService) or SIGTERM
\* (ChatbotService, whose only signal it is).
C15_ForceKillAfterGrace ==
    [][ /\ \A s \in StopId :
             ( /\ whisperStop[s].t5 /\ ~whisperStop'[s].t5
               /\ whisperStop[s].pc = "waiting"
               /\ whisperProcSt[whisperStop[s].proc] = "alive" )
             => \E i \in DOMAIN whisperSignals'[whisperStop[s].proc] :
                    whisperSignals'[whisperStop[s].proc][i] = "SIGKILL"
        /\ \A s \in StopId :
             ( /\ stopCall[s].t3 /\ ~stopCall'[s].t3
               /\ stopCall[s].pc = "waiting"
               /\ procSt[stopCall[s].proc] = "alive" /\ procSt'[stopCall[s].proc] = "alive" )
             => killed'[stopCall[s].proc]
      ]_vars

\* C16 (stop() terminates): a stop() call that waits for its worker
\* eventually returns; in WhisperService and in ChatbotService.
C16_StopTerminates ==
    /\ \A s \in StopId : (whisperStop[s].pc = "waiting") ~> (whisperStop[s].pc = "done")
    /\ \A s \in StopId : (stopCall[s].pc = "waiting") ~> (stopCall[s].pc = "done")

\* ================================================ claims, after a crash
\* Every worker the service spawned has closed, and no start() is in progress.
Crashed == Born # {} /\ (\A p \in Born : procSt[p] = "closed") /\ Starting = {}
WhisperCrashed ==
    WhisperBorn # {} /\ (\A p \in WhisperBorn : whisperProcSt[p] = "closed") /\ WhisperStarting = {}

\* C17 (no auto-restart, restart-ready): a process is born only in a step of
\* a start() call; the 'close' of a worker leaves isRunning false and the
\* handle null; and a start() called after every worker has closed, with no
\* stop() ever called, is accepted.  In both services.
C17_RestartReadyAfterCrash ==
    [][ /\ \A p \in Proc :
             (procSt[p] = "unborn" /\ procSt'[p] # "unborn") =>
                 \E c \in StartId : startCall[c].pc = "findPython" /\ startCall'[c].proc = p
        /\ \A p \in Proc :
             (procSt[p] # "closed" /\ procSt'[p] = "closed") =>
                 (isRunning' = FALSE /\ chatbotProcess' = 0)
        /\ \A c \in StartId :
             (Crashed /\ startCall[c].pc = "idle" /\ startCall'[c].pc # "idle") =>
                 startCall'[c].pc = "findPython"
        /\ \A p \in Proc :
             (whisperProcSt[p] = "unborn" /\ whisperProcSt'[p] # "unborn") =>
                 \E c \in StartId : whisperStart[c].pc = "findPython" /\ whisperStart'[c].proc = p
        /\ \A p \in Proc :
             (whisperProcSt[p] # "closed" /\ whisperProcSt'[p] = "closed") =>
                 (whisperIsRunning' = FALSE /\ transcriptionProcess' = 0)
        /\ \A c \in StartId :
             (WhisperCrashed /\ whisperStart[c].pc = "idle" /\ whisperStart'[c].pc # "idle") =>
                 whisperStart'[c].pc = "findPython"
      ]_vars

\* ============================================ claims, sendMessage()
\* C18 (send after worker death): a sendMessage() called while the handle is
\* null, isRunning is false, or the process is killed or has exited is
\* rejected, leaves messageQueue and isProcessingMessage as they were and
\* writes nothing to stdin.
C18_SendAfterDeathRejected ==
    [][ \A r \in Req :
          ( /\ promise[r] = "none" /\ promise'[r] # "none"
            /\ \/ chatbotProcess = 0
               \/ ~isRunning
               \/ killed[chatbotProcess]
               \/ procSt[chatbotProcess] # "alive" )
          => ( /\ Rejected(promise'[r])
               /\ messageQueue' = messageQueue
               /\ isProcessingMessage' = isProcessingMessage
               /\ written' = written
               /\ timer' = timer )
      ]_vars

C18_Witness ==
    /\ chatbotProcess # 0 /\ isRunning /\ procSt[chatbotProcess] = "exited"
    /\ \E r \in Req : promise[r] = "rej_send"
    /\ \E r \in Req : promise[r] = "pending"

FullStream == [i \in 1..MaxChunks |-> i]

\* The 'stream_chunk' data worker p has printed so far, in order.
RECURSIVE Repeat(_, _)
Repeat(t, n) == IF n = 0 THEN <<>> ELSE t \o Repeat(t, n - 1)
PrintedChunks(p) ==
    Repeat(FullStream, answered[p]) \o
    [i \in 1..(IF streamPos[p] > MaxChunks THEN MaxChunks ELSE streamPos[p]) |-> i]

\* C19 (streaming): as long as no timeout fires, the response callback has
\* been invoked once per 'stream_chunk' line printed, in order, and a request
\* whose 'stream_end' arrived while it was in flight is resolved with the
\* data of its chunks in order; whatever the grouping into 'data' events.
C19_StreamingRequest ==
    NoTimeoutFired =>
        /\ \A p \in Born : onResponseLog = PrintedChunks(p)
        /\ \A r \in Req : ansKind[r] = "live_end" =>
               (promise[r] = "resolved" /\ value[r] = FullStream)

\* C20 (no request write after shutdown began): stdin.write() is never called
\* with a request payload on a stdin that stop() has ended.
C20_NoWriteAfterQuit ==
    [][ \A i \in DOMAIN written' :
          i > Len(written) => ~stdinEnded[written'[i].proc] ]_vars

\* ================================== claims, WhisperService messages
Typed(data) == data.type \in {"transcript", "status", "error"}
Parses(l) == JsonParse(l).ok
WellFormed(l) == Parses(l) /\ Typed(JsonParse(l).val)
Registered(data) == callbacks[data.type] # 0
MessagesOf(ls) == [i \in 1..Len(ls) |-> JsonParse(ls[i]).val]
WellFormedRead == MessagesOf(SelectSeq(linesRead, WellFormed))

\* C21 (event order): the calls made to the callbacks are, in order and once
\* each, the well-formed 'transcript', 'status' and 'error' messages among the
\* lines the stdout handler has read whose callback is registered, each made
\* to the callback of its type; and these messages stand in transcriptBuffer
\* in the order they were read.
C21_EventOrder ==
    /\ [i \in 1..Len(callbackLog) |-> callbackLog[i].arg] = SelectSeq(WellFormedRead, Registered)
    /\ \A i \in 1..Len(callbackLog) :
          /\ callbackLog[i].on = callbackLog[i].arg.type
          /\ callbackLog[i].fn = callbacks[callbackLog[i].on]
    /\ SelectSeq(transcriptBuffer, Typed) = WellFormedRead

\* Two messages of different types have arrived and were handed to their
\* callbacks.
C21_Witness ==
    /\ delivered = Len(stream)
    /\ Len(callbackLog) = 2
    /\ callbackLog[1].on # callbackLog[2].on

\* ============================================ claims, orphan output
\* No request is in flight and none is queued.
NothingInFlight == ~isProcessingMessage /\ messageQueue = <<>> /\ InFlight = {}
StdoutArrives == \E p \in Proc, k \in ChunkKinds : StdoutData(p, k)
OrphanHarmless ==
    /\ UNCHANGED <<isRunning, messageQueue, isProcessingMessage>>
    /\ promise' = promise
    /\ uncaught' = uncaught

\* C22 (orphan output is harmless): a 'data' event of the worker's stdout that
\* arrives while no request is in flight and messageQueue is empty, and that
\* is not the first output a start() call is waiting for, throws nothing,
\* settles no request and leaves isRunning, messageQueue and
\* isProcessingMessage as they were.
C22_OrphanHarmless ==
    [][(NothingInFlight /\ Starting = {} /\ StdoutArrives) => OrphanHarmless]_vars

\* The lines read in this step.
NewLines == SubSeq(linesRead', Len(linesRead) + 1, Len(linesRead'))
WhisperStdoutArrives == \E n \in 1..Len(stream) : WhisperStdoutData(n)

\* C23 (decode errors do not stop the stream): whatever non-JSON lines a chunk
\* holds, its 'data' event leaves isRunning as it was, appends to
\* transcriptBuffer exactly the messages of the chunk's lines that parse, in
\* order, and makes exactly one call for each well-formed line of the chunk
\* whose callback is registered: a non-JSON line adds nothing, calls nothing
\* and stops no line after it, in this chunk or a later one.
C23_DecodeErrorsTolerated ==
    [][WhisperStdoutArrives =>
          /\ whisperIsRunning' = whisperIsRunning
          /\ transcriptBuffer' = transcriptBuffer \o MessagesOf(SelectSeq(NewLines, Parses))
          /\ Len(callbackLog') = Len(callbackLog) +
                 Len(SelectSeq(MessagesOf(SelectSeq(NewLines, WellFormed)), Registered))]_vars

\* A running service has read a line that is not JSON and, after it, a
\* well-formed message that it handed to its callback.
C23_Witness ==
    /\ whisperIsRunning
    /\ callbackLog # <<>>
    /\ \E i, j \in 1..Len(linesRead) : i < j /\ ~Parses(linesRead[i]) /\ WellFormed(linesRead[j])

\* =========================================== claims, isRunning and handle
\* C24 (running implies a live handle): whenever isRunning is true the service
\* holds a process handle, and the 'close' of that process has not been
\* handled; in ChatbotService and in WhisperService.
C24_RunningImpliesLiveHandle ==
    /\ isRunning => (chatbotProcess # 0 /\ procSt[chatbotProcess] # "closed")
    /\ whisperIsRunning =>
          (transcriptionProcess # 0 /\ whisperProcSt[transcriptionProcess] # "closed")

\* ============================================ claims, start() policy
Spawned == {c \in StartId : startCall[c].proc # 0}
SawOutput(c) == ~startCall[c].out \/ ~startCall[c].err
SawError(c) == ~startCall[c].onErr

\* C25 (weak liveness policy): a start() that spawned its worker and saw no
\* 'error' has resolved with success once output of the worker has reached it
\* or its 2 s timer has fired, and is never rejected (start() being called
\* only on a service that is neither starting nor running).
C25_WeakLivenessPolicy ==
    NoOverlappingStart =>
        \A c \in Spawned :
            ~SawError(c) =>
                /\ (SawOutput(c) \/ ~startCall[c].t2) => startCall[c].pc = "ok"
                /\ startCall[c].pc # "failed"

\* ======================================= claims, stop() postcondition
ChatbotStopped == ~isRunning /\ chatbotProcess = 0 /\ messageQueue = <<>> /\ ~isProcessingMessage
WhisperStopped == ~whisperIsRunning /\ transcriptionProcess = 0

\* C26 (stop() postcondition): while start() has not been called again since a
\* stop() call returned, the service is stopped: isRunning is false and the
\* process handle is null, and in ChatbotService messageQueue is empty and
\* isProcessingMessage is false.
C26_StopPostcondition ==
    /\ \A s \in StopId :
          (stopCall[s].pc = "done" /\ stopCall[s].starts = StartCalls(startCall)) => ChatbotStopped
    /\ \A s \in StopId :
          (whisperStop[s].pc = "done" /\ whisperStop[s].starts = StartCalls(whisperStart)) =>
              WhisperStopped

\* ===================================== claims, whose worker is signalled
StopsOf(p) == {s \in StopId : whisperStop[s].proc = p}
Kills(p) == LET IsKill(sig) == sig = "SIGKILL" IN Len(SelectSeq(whisperSignals[p], IsKill))

\* C27 (stop() signals its own worker only): a worker receives signals only
\* from stop() calls made while it was the current worker: one SIGINT per
\* such call, and at most one SIGKILL per such call whose 5 s timer has fired
\* (start() being called only on a service that is neither starting nor
\* running).
C27_StopSignalsOwnWorker ==
    (\A c \in StartId : ~whisperStart[c].busy) =>
        \A p \in Proc :
            /\ Len(whisperSignals[p]) - Kills(p) <= Cardinality(StopsOf(p))
            /\ Kills(p) <= Cardinality({s \in StopsOf(p) : ~whisperStop[s].t5})

\* ============================================= claims, sessions
\* The requests written to a process that is not the current one.
ProcOf(r) == written[CHOOSE i \in DOMAIN written : written[i].req = r].proc
OldSession == {r \in WrittenReqs : ProcOf(r) # chatbotProcess}
OldTimerFires == \E r \in OldSession : Timeout(r)
OldListenerFires == \E p \in Proc \ {chatbotProcess}, k \in ChunkKinds : StdoutData(p, k)

\* C28 (request timers do not leak): once a new start() has spawned the
\* current worker, the 30 s timer and the stdout listener of a request written
\* to an earlier worker leave isProcessingMessage as it was, settle no request
\* other than those written to earlier workers, and write no request while one
\* written to the current worker is in flight (start() being called only on a
\* service that is neither starting nor running).
C28_NoTimerLeak ==
    [][(NoOverlappingStart /\ chatbotProcess # 0 /\ (OldTimerFires \/ OldListenerFires)) =>
          /\ isProcessingMessage' = isProcessingMessage
          /\ \A r \in Req \ OldSession : promise'[r] = promise[r]
          /\ Len(written') > Len(written) => InFlight \subseteq OldSession]_vars

\* ============================================ claims, transcript buffer
\* The last n entries of a sequence.
LastOf(q, n) == SubSeq(q, Len(q) - n + 1, Len(q))

\* C29 (bounded transcript buffer): a stdout 'data' event leaves
\* transcriptBuffer with at most BufferCap messages, which are the most recent
\* of those it held followed by those of the chunk's lines, in arrival order
\* and with the newest last; nothing is dropped unless BufferCap is exceeded,
\* and a message that makes the buffer exceed BufferCap leaves exactly the
\* BufferKeep most recent messages.
C29_BoundedBuffer ==
    [][delivered' > delivered =>
          LET all == transcriptBuffer \o MessagesOf(SelectSeq(NewLines, Parses))
              n == Len(transcriptBuffer')
          IN /\ n <= BufferCap
             /\ n <= Len(all)
             /\ transcriptBuffer' = LastOf(all, n)
             /\ Len(all) <= BufferCap => n = Len(all)
             /\ (Len(NewLines) = 1 /\ Len(all) = BufferCap + 1) => n = BufferKeep]_vars

\* The buffer has been cut: more lines were read than BufferCap, BufferKeep
\* messages are held, and the newest is the last of them.
C29_Witness ==
    /\ Len(linesRead) > BufferCap
    /\ Len(transcriptBuffer) = BufferKeep
    /\ transcriptBuffer[BufferKeep] = JsonParse(linesRead[Len(linesRead)]).val

\* ================================================ claims, ChatController
\* C30 (truthful connection state): isConnected is true only if a
\* startChatbot request sent by connectChatbotService() has returned success.
C30_ConnectedOnlyAfterStart ==
    chatController.isConnected => startChatbotOk

====
